---- MODULE Spec2Model ----
(***************************************************************************)
(* Hemingway Mode plugin for Obsidian.  Two builds of the plugin are in    *)
(* the repository and both are modelled:                                   *)
(*   "main"  src/main.ts            (top-line indicator, no install guard) *)
(*   "p1"    src/unnamed/part_001   (status bar, keymapInstalled guard,    *)
(*                                   focus poll)                           *)
(* The plugin and the part of the host it touches (keymap scope stack,     *)
(* workspace views, data store) form one world record; every synchronous   *)
(* stretch of code is an operator from world to world, and every action    *)
(* commits the world one such stretch produces.                            *)
(***************************************************************************)
EXTENDS Naturals, Integers, Sequences, FiniteSets, Bags, TLC

VARIABLES
  ver,              \* which build runs: "main" or "p1"
  isMac,            \* host platform: decides what the "Mod" modifier means
  life,             \* plugin lifecycle: new, loading, loaded, failed, unloaded
  settings,         \* this.settings (Undef before loadSettings completes)
  settingsIsDefaults, \* whether this.settings is the DEFAULT_SETTINGS object itself
  defaultSettings,  \* the current contents of the module's DEFAULT_SETTINGS object
  data,             \* the host's stored record for the plugin (data.json)
  keyMapScope,      \* this.keyMapScope (a scope object, or Undef)
  keymapInstalled,  \* this.keymapInstalled (p1; Undef until assigned)
  stack,            \* host keymap: scopes pushed by pushScope, oldest first
  statusBar,        \* p1: text of this.statusBar (Undef until the span exists)
  activeLeaf,       \* the workspace's active view
  classes,          \* the Markdown views whose contentEl carries "hemingway"
  listeners,        \* per Markdown view: click listeners of the plugin attached
  doc,              \* per Markdown view: [len, cursor] of its editor
  focused,          \* whether the active Markdown view's editor has focus
  pending,          \* handlers suspended at "await this.saveSettings()"
  leafHandler       \* whether the active-leaf-change handler is subscribed

vars == <<ver, isMac, life, settings, settingsIsDefaults, defaultSettings, data, keyMapScope, keymapInstalled, stack,
          statusBar, activeLeaf, classes, listeners, doc, focused, pending,
          leafHandler>>

(* ------------------------------ bounds -------------------------------- *)

MaxStack == 2
MaxListeners == 2
MaxPending == 1
MaxDoc == 1

(* ------------------------------ values -------------------------------- *)

Undef == "undefined"
\* An object-valued field that is still undefined (this.settings, this.keyMapScope).
UndefObj == [undefined |-> TRUE]
\* loadData() when nothing is stored.
NullObj == [null |-> TRUE]
Versions == {"main", "p1"}

MarkdownViews == {"md1", "md2"}
\* "none": the active view is no MarkdownView (another kind of view, or no view at
\* all); getActiveViewOfType(MarkdownView) is null in both cases.
Leaves == MarkdownViews \cup {"none"}

HEMINGWAY_MODE_CLASS == "hemingway"

\* const DEFAULT_SETTINGS, one per build.
DEFAULT_SETTINGS_main ==
  [enabled |-> FALSE, allowBackspace |-> FALSE, showToggleNotice |-> TRUE,
   showTopLineWhenActive |-> TRUE, topLineColor |-> "#cc0000", topLineWidth |-> "3"]

DEFAULT_SETTINGS_p1 ==
  [enabled |-> FALSE, allowBackspace |-> FALSE, showToggleNotice |-> TRUE,
   showStatusBar |-> TRUE, statusBarText |-> "Hemingway"]

DEFAULT_SETTINGS(v) == IF v = "main" THEN DEFAULT_SETTINGS_main ELSE DEFAULT_SETTINGS_p1

\* Object.assign({}, a, b): b's keys over a's; a null source contributes nothing.
ObjectAssign(a, b) ==
  IF b = NullObj THEN a
  ELSE [k \in DOMAIN a \cup DOMAIN b |-> IF k \in DOMAIN b THEN b[k] ELSE a[k]]

(* --------------------------- key interception ------------------------- *)

Modifiers == {"Meta", "Ctrl", "Alt", "Shift"}

\* A key list that also names Enter: what the scope would take if a typing key
\* were among the void keys.
voidKeys_withEnter(allowBackspace) ==
  {"ArrowLeft", "ArrowRight", "ArrowUp", "ArrowDown", "End", "Home", "PageUp",
   "PageDown", "Delete", "Clear", "Cut", "EraseEof", "Redo", "Undo", "Enter"}
  \cup (IF allowBackspace THEN {} ELSE {"Backspace"})

\* const voidKeys = [...]; if (!allowBackspace) voidKeys.push("Backspace")
voidKeys(allowBackspace) ==
  {"ArrowLeft", "ArrowRight", "ArrowUp", "ArrowDown", "End", "Home", "PageUp",
   "PageDown", "Delete", "Clear", "Cut", "EraseEof", "Redo", "Undo"}
  \cup (IF allowBackspace THEN {} ELSE {"Backspace"})

\* The eleven modifier lists each void key is registered with, as written.
ModLists ==
  << <<>>, <<"Meta">>, <<"Alt">>, <<"Ctrl">>, <<"Shift">>, <<"Mod">>,
     <<"Meta", "Shift">>, <<"Alt", "Shift">>, <<"Ctrl", "Shift">>,
     <<"Shift", "Shift">>, <<"Mod", "Shift">> >>

\* The letter registrations after the loop.
LetterKeys_main == { [mods |-> <<"Meta">>, key |-> "Z"] }
LetterKeys_p1 == { [mods |-> <<"Meta">>, key |-> "Z"], [mods |-> <<"Meta">>, key |-> "A"] }

\* Host: a registration's modifier list is compiled with "Mod" read as Meta on
\* macOS and Ctrl elsewhere, then sorted and joined; two compiled lists are equal
\* exactly when they hold the same modifiers the same number of times.
compileModifiers(mods, mac) ==
  [m \in Modifiers |->
     Cardinality({ i \in DOMAIN mods :
        (IF mods[i] = "Mod" THEN (IF mac THEN "Meta" ELSE "Ctrl") ELSE mods[i]) = m })]

\* Host: the modifiers held during a key event, in the same compiled form.
eventModifiers(ev) == [m \in Modifiers |-> IF m \in ev.mods THEN 1 ELSE 0]

\* String.prototype.toLowerCase on the keys of the model.
toLowerCase(k) ==
  CASE k = "Z" -> "z" [] k = "A" -> "a" [] k = "X" -> "x" [] OTHER -> k

\* Host Scope.handleKey compares keys case-insensitively.
keyMatches(key, ev) == key = ev.key \/ toLowerCase(key) = toLowerCase(ev.key)

\* The eleven lists as the host compiles them, on macOS and elsewhere.
CompiledModLists_mac == { compileModifiers(ModLists[i], TRUE) : i \in DOMAIN ModLists }
CompiledModLists_other == { compileModifiers(ModLists[i], FALSE) : i \in DOMAIN ModLists }

\* The loop of buildKeyMapScope: every void key is registered with each of the
\* eleven lists; a registration takes an event that has its key and exactly its
\* compiled modifiers.
voidKeyRegistered(allowBackspace, mac, ev) ==
  /\ \E k \in voidKeys(allowBackspace) : keyMatches(k, ev)
  /\ eventModifiers(ev) \in (IF mac THEN CompiledModLists_mac ELSE CompiledModLists_other)

\* The registrations after the loop.
letterKeyRegistered(v, mac, ev) ==
  \E r \in (IF v = "main" THEN LetterKeys_main ELSE LetterKeys_p1) :
     keyMatches(r.key, ev) /\ compileModifiers(r.mods, mac) = eventModifiers(ev)

\* Host Scope.handleKey on a scope built by buildKeyMapScope: every handler of
\* the plugin is nop, which returns false, so an event some registration takes
\* is swallowed; any other event falls through to the parent scope (the app's).
handleKey(v, mac, scope, ev) ==
  voidKeyRegistered(scope.ab, mac, ev) \/ letterKeyRegistered(v, mac, ev)

(* ------------------------------- world -------------------------------- *)

\* The plugin instance and the host state it reads and writes, as one record.
World ==
  [ver |-> ver, isMac |-> isMac, life |-> life, settings |-> settings,
   settingsIsDefaults |-> settingsIsDefaults, defaultSettings |-> defaultSettings,
   data |-> data,
   keyMapScope |-> keyMapScope, keymapInstalled |-> keymapInstalled, stack |-> stack,
   statusBar |-> statusBar, activeLeaf |-> activeLeaf, classes |-> classes,
   listeners |-> listeners, doc |-> doc, focused |-> focused, pending |-> pending,
   leafHandler |-> leafHandler,
   notices |-> <<>>,          \* the notices the running code has shown so far
   styles |-> <<>>]           \* the style properties it has written so far

\* this.app.workspace.getActiveViewOfType(MarkdownView)
getActiveViewOfType(w) == IF w.activeLeaf \in MarkdownViews THEN w.activeLeaf ELSE "null"

\* Identity of "new Scope(...)": an object distinct from every scope still in use.
\* A scope that is not on the host stack is reachable only through
\* this.keyMapScope, which the new object replaces, so the least number not on the
\* stack names the new object.
ScopeIds(w) == { w.stack[i].id : i \in DOMAIN w.stack }

NewScopeId(w) ==
  CHOOSE n \in 0..Len(w.stack) :
     n \notin ScopeIds(w) /\ \A m \in 0..Len(w.stack) : m \notin ScopeIds(w) => n <= m

\* buildKeyMapScope(allowBackspace): this.keyMapScope = new Scope(...) with the
\* registrations for allowBackspace; the scope object records what it was built with.
buildKeyMapScope(w, allowBackspace) ==
  [w EXCEPT !.keyMapScope = [id |-> NewScopeId(w), ab |-> allowBackspace]]

\* Host keymap.pushScope(scope): scope goes on top of the stack.
pushScope(w, scope) == [w EXCEPT !.stack = Append(@, scope)]

\* Host keymap.popScope(scope): that very object is taken off the stack if it is
\* on it; a scope that was never pushed changes nothing.
popScope(w, scope) ==
  LET at == { i \in DOMAIN w.stack : w.stack[i] = scope } IN
  IF at = {} THEN w
  ELSE LET top == CHOOSE i \in at : \A j \in at : j <= i IN
       [w EXCEPT !.stack = SubSeq(@, 1, top - 1) \o SubSeq(@, top + 1, Len(@))]

\* main.ts installHemingwayKeymap / uninstallHemingwayKeymap: no guard.
installHemingwayKeymap_main(w) == pushScope(w, w.keyMapScope)

uninstallHemingwayKeymap_main(w) == popScope(w, w.keyMapScope)

\* part_001: guarded by this.keymapInstalled (undefined is falsy).
installHemingwayKeymap_p1(w) ==
  IF w.keymapInstalled = "true" THEN w
  ELSE [pushScope(w, w.keyMapScope) EXCEPT !.keymapInstalled = "true"]

uninstallHemingwayKeymap_p1(w) ==
  IF w.keymapInstalled # "true" THEN w
  ELSE [popScope(w, w.keyMapScope) EXCEPT !.keymapInstalled = "false"]

installHemingwayKeymap(w) ==
  IF w.ver = "main" THEN installHemingwayKeymap_main(w) ELSE installHemingwayKeymap_p1(w)

uninstallHemingwayKeymap(w) ==
  IF w.ver = "main" THEN uninstallHemingwayKeymap_main(w) ELSE uninstallHemingwayKeymap_p1(w)

\* Host editor.setCursor({line: 99999999, ch: 0}): a line past the last one is
\* clipped to the end of the document.
setCursorToEnd(w, md) == [w EXCEPT !.doc[md].cursor = w.doc[md].len]

\* contentEl.addEventListener("click", this.mouseEventListener.bind(this)): bind
\* makes a new function object each time, so every call attaches one more listener.
addClickListener(w, md) == [w EXCEPT !.listeners[md] = @ + 1]

\* contentEl.removeEventListener("click", this.mouseEventListener.bind(this)): the
\* function passed is a new object, attached nowhere, so nothing is removed.
removeClickListener(w, md) == w

\* A setupView that decorates the view whatever showTopLineWhenActive says.
setupView_alwaysDecorated(w) ==
  LET md == getActiveViewOfType(w) IN
  IF md = "null" THEN w
  ELSE addClickListener([setCursorToEnd(w, md) EXCEPT !.classes = @ \cup {md}], md)

\* main.ts setupView: cursor to end, class re-applied by showTopLineWhenActive.
setupView_main(w) ==
  LET md == getActiveViewOfType(w) IN
  IF md = "null" THEN w
  ELSE LET w1 == setCursorToEnd(w, md)
           w2 == [w1 EXCEPT !.classes = @ \ {md}]
           w3 == IF w2.settings.showTopLineWhenActive
                 THEN [w2 EXCEPT !.classes = @ \cup {md}] ELSE w2
       IN addClickListener(w3, md)

\* part_001 setupView: cursor to end, class added.
setupView_p1(w) ==
  LET md == getActiveViewOfType(w) IN
  IF md = "null" THEN w
  ELSE addClickListener([setCursorToEnd(w, md) EXCEPT !.classes = @ \cup {md}], md)

setupView(w) == IF w.ver = "main" THEN setupView_main(w) ELSE setupView_p1(w)

\* restoreView (the same in both builds): class removed from the active view.
restoreView(w) ==
  LET md == getActiveViewOfType(w) IN
  IF md = "null" THEN w
  ELSE removeClickListener([w EXCEPT !.classes = @ \ {md}], md)

(* ---------------------------- updateStatus ---------------------------- *)

\* The text of the toggle notice.
noticeText(enabled) ==
  IF enabled THEN "Hemingway mode active" ELSE "Hemingway mode inactive"

\* The end of updateStatus (the same in both builds): a notice naming
\* this.settings.enabled, if showToggleNotice is on and the call is not quiet.
showToggleNotice(w, quiet) ==
  IF w.settings.showToggleNotice /\ ~quiet
  THEN [w EXCEPT !.notices = Append(@, noticeText(w.settings.enabled))]
  ELSE w

\* main.ts updateStatus reads this.settings.allowBackspace first: a TypeError
\* while this.settings is undefined, before anything is changed.
updateStatusThrows_main(w) == w.settings = UndefObj

\* part_001 updateStatus with a Markdown view active evaluates
\* this.statusBar.setText(this.settings...): a TypeError while this.statusBar or
\* this.settings is undefined.  Without a Markdown view it reads neither.
updateStatusThrows_p1(w) ==
  /\ getActiveViewOfType(w) # "null"
  /\ (w.statusBar = Undef \/ w.settings = UndefObj)

updateStatusThrows(w) ==
  IF w.ver = "main" THEN updateStatusThrows_main(w) ELSE updateStatusThrows_p1(w)

\* main.ts updateStatus: the scope is rebuilt first, then installed or
\* uninstalled by this.settings.enabled.
\* Number.prototype.toString inside a template literal, followed by "px".
px(n) == n \o "px"

\* main.ts updateStatus: markdownView?.contentEl.style.setProperty(...), twice.
setStyleProperties(w) ==
  LET markdownView == getActiveViewOfType(w) IN
  IF markdownView = "null" THEN w
  ELSE [w EXCEPT !.styles = @ \o
          << [view |-> markdownView, property |-> "--hemingway-active-top-line-color",
              value |-> w.settings.topLineColor],
             [view |-> markdownView, property |-> "--hemingway-active-top-line-width",
              value |-> px(w.settings.topLineWidth)] >>]

updateStatus_main(w, quiet) ==
  IF updateStatusThrows_main(w) THEN w
  ELSE LET w1 == setStyleProperties(buildKeyMapScope(w, w.settings.allowBackspace)) IN
       showToggleNotice(IF w1.settings.enabled
                        THEN setupView(installHemingwayKeymap(w1))
                        ELSE restoreView(uninstallHemingwayKeymap(w1)), quiet)

\* The text part_001 updateStatus writes to the status bar.
statusBarLabel(s) == IF s.showStatusBar /\ s.enabled THEN s.statusBarText ELSE ""

\* part_001 updateStatus: without a Markdown view, uninstall and return; else set
\* the status bar text, then install or uninstall by this.settings.enabled.
updateStatus_p1(w, quiet) ==
  IF getActiveViewOfType(w) = "null" THEN restoreView(uninstallHemingwayKeymap(w))
  ELSE IF updateStatusThrows_p1(w) THEN w
  ELSE LET w1 == [w EXCEPT !.statusBar = statusBarLabel(w.settings)] IN
       showToggleNotice(IF w1.settings.enabled
                        THEN setupView(installHemingwayKeymap(w1))
                        ELSE restoreView(uninstallHemingwayKeymap(w1)), quiet)

updateStatus(w, quiet) ==
  IF w.ver = "main" THEN updateStatus_main(w, quiet) ELSE updateStatus_p1(w, quiet)

(* ------------------------------ handlers ------------------------------ *)

\* The commands each build registers.
Commands(v) ==
  IF v = "main" THEN {"toggle-active"} ELSE {"toggle-active", "set-active", "set-inactive"}

\* What a command assigns to this.settings.enabled.
commandValue(cmd, s) ==
  CASE cmd = "toggle-active" -> ~s.enabled
    [] cmd = "set-active"    -> TRUE
    [] cmd = "set-inactive"  -> FALSE

\* JSON.stringify of a number: NaN has no JSON form and is written as null.
\* Numbers are held as their decimal strings, NaN as "NaN", null as "null".
stringifyNumber(n) == IF n = "NaN" THEN "null" ELSE n

\* The record data.json holds after saveData(record) and loadData gives back:
\* JSON.parse(JSON.stringify(record)).  Booleans and strings come back as they
\* were; topLineWidth is the one number field.
storedForm(record) ==
  [k \in DOMAIN record |->
     IF k = "topLineWidth" THEN stringifyNumber(record[k]) ELSE record[k]]

\* saveSettings: saveData(this.settings).  The host store holds the record of the
\* latest saveData call; the caller is resumed once it is written.
saveSettings(w) == [w EXCEPT !.data = storedForm(w.settings)]

\* this.settings.<key> = value: a write to the object this.settings refers to,
\* which is seen through every other reference to that object.
assignSetting(w, key, value) ==
  [w EXCEPT !.settings[key] = value,
            !.defaultSettings = IF w.settingsIsDefaults THEN [@ EXCEPT ![key] = value] ELSE @]

\* A handler up to "await this.saveSettings()": the field is assigned, saveData is
\* called, and the handler is suspended with the rest of its body: [rebuild]
\* buildKeyMapScope, then updateStatus(quiet).
suspendAtSave(w, key, value, quiet, rebuild) ==
  LET w1 == saveSettings(assignSetting(w, key, value)) IN
  [w1 EXCEPT !.pending = @ (+) SetToBag({[quiet |-> quiet, rebuild |-> rebuild]})]

\* A command callback up to its first await (a TypeError, and nothing done, while
\* this.settings is undefined).
commandCallback(w, cmd) ==
  IF w.settings = UndefObj THEN w
  ELSE suspendAtSave(w, "enabled", commandValue(cmd, w.settings), FALSE, FALSE)

\* A settings-tab onChange up to its first await.  Only part_001's allowBackspace
\* handler calls buildKeyMapScope itself after the save.
settingOnChange(w, key, value) ==
  suspendAtSave(w, key, value, TRUE, w.ver = "p1" /\ key = "allowBackspace")

\* The rest of a suspended handler, run once the host has written the record.
resumeAfterSave(w, h) ==
  LET w1 == [w EXCEPT !.pending = @ (-) SetToBag({h})]
      w2 == IF h.rebuild THEN buildKeyMapScope(w1, w1.settings.allowBackspace) ELSE w1
  IN updateStatus(w2, h.quiet)

\* onload up to "await this.loadSettings()": setting tab, commands and the
\* active-leaf-change handler are registered.
onloadBegin(w) == [w EXCEPT !.life = "loading", !.leafHandler = TRUE]

\* A loadSettings that merges into the DEFAULT_SETTINGS object itself:
\* Object.assign(DEFAULT_SETTINGS, loadData()).
loadSettings_intoDefaults(w) ==
  LET merged == ObjectAssign(w.defaultSettings, w.data) IN
  [w EXCEPT !.settings = merged, !.defaultSettings = merged, !.settingsIsDefaults = TRUE]

\* loadSettings: this.settings = Object.assign({}, DEFAULT_SETTINGS, loadData()).
\* The target is a new object, so this.settings is not the DEFAULT_SETTINGS object.
loadSettings(w) ==
  [w EXCEPT !.settings = ObjectAssign(w.defaultSettings, w.data),
            !.settingsIsDefaults = FALSE]

\* main.ts onload after the await: the scope is built; updateStatus is not called.
onloadRest_main(w) ==
  LET w1 == loadSettings(w) IN
  [buildKeyMapScope(w1, w1.settings.allowBackspace) EXCEPT !.life = "loaded"]

\* part_001 onload after the await: scope built, keymapInstalled = false,
\* updateStatus(true), and only then the poll and the status bar span.  When
\* updateStatus throws, onload ends there: no poll, no status bar.
onloadRest_p1(w) ==
  LET w1 == loadSettings(w)
      w2 == [buildKeyMapScope(w1, w1.settings.allowBackspace) EXCEPT !.keymapInstalled = "false"]
  IN IF updateStatusThrows_p1(w2) THEN [w2 EXCEPT !.life = "failed"]
     ELSE [updateStatus_p1(w2, TRUE) EXCEPT !.life = "loaded", !.statusBar = ""]

onloadRest(w) == IF w.ver = "main" THEN onloadRest_main(w) ELSE onloadRest_p1(w)

\* onunload (the same in both builds), then the host's own cleanup: what was
\* registered with registerEvent / registerInterval is released.  main.ts
\* subscribes with workspace.on alone, so its handler stays subscribed.
onunload(w) ==
  LET w1 == IF w.settings.enabled THEN restoreView(uninstallHemingwayKeymap(w)) ELSE w IN
  [w1 EXCEPT !.life = "unloaded",
             !.leafHandler = IF w.ver = "p1" THEN FALSE ELSE @]

\* The active-leaf-change handler: updateStatus(true).
activeLeafChangeHandler(w) == IF w.leafHandler THEN updateStatus(w, TRUE) ELSE w

\* part_001's 500 ms poll.
pollTick(w) ==
  IF getActiveViewOfType(w) # "null" /\ w.settings.enabled
  THEN IF w.focused THEN installHemingwayKeymap_p1(w) ELSE uninstallHemingwayKeymap_p1(w)
  ELSE w

\* onExternalSettingsChange: updateStatus(true); the settings are not re-read.
onExternalSettingsChange(w) == updateStatus(w, TRUE)

\* mouseEventListener: the active Markdown view's editor gets the focus.
mouseEventListener(w) ==
  IF getActiveViewOfType(w) # "null" THEN [w EXCEPT !.focused = TRUE] ELSE w

(* ------------------------------ actions ------------------------------- *)

\* The bounds of the model: an action that would exceed one is not taken.
Bounded(w) ==
  /\ Len(w.stack) <= MaxStack
  /\ \A md \in MarkdownViews : w.listeners[md] <= MaxListeners /\ w.doc[md].len <= MaxDoc
  /\ BagCardinality(w.pending) <= MaxPending

\* The world w becomes the next state (a notice is shown and gone: no state).
Commit(w) ==
  /\ Bounded(w)
  /\ ver' = w.ver /\ isMac' = w.isMac /\ life' = w.life /\ settings' = w.settings
  /\ settingsIsDefaults' = w.settingsIsDefaults /\ defaultSettings' = w.defaultSettings
  /\ data' = w.data /\ keyMapScope' = w.keyMapScope
  /\ keymapInstalled' = w.keymapInstalled /\ stack' = w.stack
  /\ statusBar' = w.statusBar /\ activeLeaf' = w.activeLeaf /\ classes' = w.classes
  /\ listeners' = w.listeners /\ doc' = w.doc /\ focused' = w.focused
  /\ pending' = w.pending /\ leafHandler' = w.leafHandler

\* The records the host store may hold when the plugin starts, or after an edit
\* of data.json from outside.
StoredChoices == { NullObj, [enabled |-> TRUE] }

\* The settings-tab controls of each build, with the values a user can enter.
TabInputs(v) ==
  [key : {"enabled", "allowBackspace", "showToggleNotice"}, value : BOOLEAN]
  \cup (IF v = "main"
        THEN [key : {"showTopLineWhenActive"}, value : BOOLEAN]
        ELSE [key : {"showStatusBar"}, value : BOOLEAN]
             \cup [key : {"statusBarText"}, value : {"Hemingway", "Papa"}])

\* The host enables the plugin: onload runs up to its first await.
Onload == life = "new" /\ Commit(onloadBegin(World))

\* loadData() resolves and onload runs to its end.
OnloadResume == life = "loading" /\ Commit(onloadRest(World))

\* The user runs a command of the plugin.
RunCommand ==
  /\ life \in {"loading", "loaded", "failed"}
  /\ \E cmd \in Commands(ver) : Commit(commandCallback(World, cmd))

\* The user changes a control of the settings tab (a toggle reports a changed
\* value; the status bar text field exists only while showStatusBar is on).
ChangeControl(c) ==
  /\ life \in {"loaded", "failed"}
  /\ settings[c.key] # c.value
  /\ c.key = "statusBarText" => settings.showStatusBar
  /\ Commit(settingOnChange(World, c.key, c.value))

ChangeSetting == \E c \in TabInputs(ver) : ChangeControl(c)

\* The host has written the record of a suspended handler, which runs to its end.
Resume(h) == Commit(resumeAfterSave(World, h))

SaveDone == \E h \in BagToSet(pending) : Resume(h)

\* The workspace's active leaf changes (or the event fires again for the same
\* leaf); the editor of a newly active Markdown view may or may not have focus.
ActiveLeafChange ==
  /\ \E leaf \in Leaves, f \in BOOLEAN :
        /\ leaf \notin MarkdownViews => ~f
        /\ Commit(activeLeafChangeHandler([World EXCEPT !.activeLeaf = leaf, !.focused = f]))

\* Focus leaves the editor (the user clicks into a side pane or a dialog).
Blur == focused /\ Commit([World EXCEPT !.focused = FALSE])

\* part_001's poll fires; the interval exists once onload has run to its end.
PollTick == ver = "p1" /\ life = "loaded" /\ Commit(pollTick(World))

\* data.json is changed from outside and the host tells the plugin.
ExternalSettingsChange ==
  /\ life \in {"loaded", "failed"}
  /\ \E d \in StoredChoices :
        /\ d # data
        /\ Commit(onExternalSettingsChange([World EXCEPT !.data = d]))

\* The host disables the plugin.
Unload == life \in {"loaded", "failed"} /\ Commit(onunload(World))

Init ==
  /\ ver \in Versions
  /\ isMac = FALSE
  /\ life = "new"
  /\ settings = UndefObj
  /\ settingsIsDefaults = FALSE
  /\ defaultSettings = DEFAULT_SETTINGS(ver)
  /\ data \in StoredChoices
  /\ keyMapScope = UndefObj
  /\ keymapInstalled = Undef
  /\ stack = <<>>
  /\ statusBar = Undef
  /\ activeLeaf \in Leaves
  /\ classes = {}
  /\ listeners = [md \in MarkdownViews |-> 0]
  /\ doc = [md \in MarkdownViews |-> [len |-> MaxDoc, cursor |-> 0]]
  /\ focused = FALSE
  /\ pending = EmptyBag
  /\ leafHandler = FALSE

Next ==
  \/ Onload
  \/ OnloadResume
  \/ RunCommand
  \/ ChangeSetting
  \/ SaveDone
  \/ ActiveLeafChange
  \/ Blur
  \/ PollTick
  \/ Unload

Spec == Init /\ [][Next]_vars

\* The build of src/main.ts alone; it registers no interval.
InitMain == Init /\ ver = "main"

NextMain ==
  \/ Onload
  \/ OnloadResume
  \/ RunCommand
  \/ ChangeSetting
  \/ SaveDone
  \/ ActiveLeafChange
  \/ Blur
  \/ Unload

SpecMain == InitMain /\ [][NextMain]_vars

(* ------------------------------- loading ------------------------------ *)

\* A value for every settings key that differs from the key's default.
NonDefault(v) ==
  IF v = "main"
  THEN [enabled |-> TRUE, allowBackspace |-> TRUE, showToggleNotice |-> FALSE,
        showTopLineWhenActive |-> FALSE, topLineColor |-> "#00cc00", topLineWidth |-> "5"]
  ELSE [enabled |-> TRUE, allowBackspace |-> TRUE, showToggleNotice |-> FALSE,
        showStatusBar |-> FALSE, statusBarText |-> "Papa"]

\* What loadData() may give: null, a record with any subset of the settings keys
\* (data.json written by an older version, or edited), or the record the other
\* build wrote, which has keys this build does not know.
StoredRecords(v) ==
  {NullObj}
  \cup { [k \in K |-> NonDefault(v)[k]] : K \in SUBSET DOMAIN NonDefault(v) }
  \cup { DEFAULT_SETTINGS(IF v = "main" THEN "p1" ELSE "main") }

\* The loading specification: the plugin starts on any stored record, and its
\* commands and settings-tab controls then change the in-memory settings.
InitLoad ==
  /\ ver \in Versions
  /\ isMac = FALSE
  /\ life = "new"
  /\ settings = UndefObj
  /\ settingsIsDefaults = FALSE
  /\ defaultSettings = DEFAULT_SETTINGS(ver)
  /\ data \in StoredRecords(ver)
  /\ keyMapScope = UndefObj
  /\ keymapInstalled = Undef
  /\ stack = <<>>
  /\ statusBar = Undef
  /\ activeLeaf \in {"md1", "none"}
  /\ classes = {}
  /\ listeners = [md \in MarkdownViews |-> 0]
  /\ doc = [md \in MarkdownViews |-> [len |-> MaxDoc, cursor |-> 0]]
  /\ focused = FALSE
  /\ pending = EmptyBag
  /\ leafHandler = FALSE

NextLoad ==
  \/ Onload
  \/ OnloadResume
  \/ RunCommand
  \/ ChangeSetting
  \/ SaveDone

SpecLoad == InitLoad /\ [][NextLoad]_vars

(* ----------------------------- settings tab --------------------------- *)

DEFAULT_TOP_LINE_COLOR == "#cc0000"

\* What the width field (an input of type "number") may hand to onChange: a
\* whole number, a decimal, and the empty string it reports when cleared.
WidthInputs == {"5", "2.5", ""}

\* parseInt on those strings: the leading integer, or NaN when there is none.
parseInt(str) ==
  CASE str = "5" -> "5"
    [] str = "2.5" -> "2"
    [] OTHER -> "NaN"

\* main.ts, onChange of the "Top line width" field up to its await.
topLineWidthOnChange(w, str) == settingOnChange(w, "topLineWidth", parseInt(str))

\* main.ts, the colour picker's onChange, and the "Default" button's onClick
\* (which assigns DEFAULT_TOP_LINE_COLOR), up to their await.
topLineColorOnChange(w, value) == settingOnChange(w, "topLineColor", value)

\* The two appearance controls exist while showTopLineWhenActive is on.
ChangeTopLineWidth ==
  /\ ver = "main" /\ life = "loaded" /\ settings.showTopLineWhenActive
  /\ \E str \in WidthInputs : Commit(topLineWidthOnChange(World, str))

ChangeTopLineColor ==
  /\ ver = "main" /\ life = "loaded" /\ settings.showTopLineWhenActive
  /\ \E value \in {"#00cc00", DEFAULT_TOP_LINE_COLOR} :
        /\ settings.topLineColor # value
        /\ Commit(topLineColorOnChange(World, value))

\* The settings specification: every command and every control of the settings
\* tab, with handlers suspended at their save.
NextSettings ==
  \/ Onload
  \/ OnloadResume
  \/ RunCommand
  \/ ChangeSetting
  \/ ChangeTopLineWidth
  \/ ChangeTopLineColor
  \/ SaveDone

SpecSettings == Init /\ [][NextSettings]_vars

(* --------------------------- external change ------------------------- *)

\* The specification with changes of data.json from outside (a sync service, an
\* editor) next to the plugin's own commands and the workspace's leaf changes.
NextExternal ==
  \/ Onload
  \/ OnloadResume
  \/ RunCommand
  \/ SaveDone
  \/ ActiveLeafChange
  \/ ExternalSettingsChange

SpecExternal == Init /\ [][NextExternal]_vars

(* ------------------------------- editing ------------------------------ *)

\* The key events the user of the model presses: a key of each kind (backward,
\* forward, deleting, typing) with modifier sets of each size.
PressedKeys == {"ArrowLeft", "End", "Backspace", "a"}
PressedMods == { {}, {"Shift"}, {"Ctrl", "Alt"} }

KeyEvents == [mods : PressedMods, key : PressedKeys]

\* Host keymap on keydown: the event goes to the scope on top of the stack; when a
\* handler of it returns false the event is cancelled and the editor never sees it.
Swallowed(w, ev) ==
  /\ w.stack # <<>>
  /\ handleKey(w.ver, w.isMac, w.stack[Len(w.stack)], ev)

BackwardKeys == {"ArrowLeft", "ArrowUp", "Home", "PageUp"}
ForwardKeys == {"ArrowRight", "ArrowDown", "End", "PageDown"}
TypingKeys == {"a", "A", "x", "X", "z", "Z", "1", ".", " ", "Enter", "Tab"}

\* Host editor: what a key event that reaches the editor may do to [len, cursor].
\* A navigation key moves the cursor its way (how far depends on the modifiers
\* and the text), Backspace and Delete remove a character, a key typed without
\* Meta, Ctrl or Alt inserts at the cursor.  The text effect of the editor's own
\* shortcuts (undo, redo, cut, select all) is left out.
editorDefault(d, ev) ==
  CASE ev.key \in BackwardKeys -> { [d EXCEPT !.cursor = c] : c \in 0..d.cursor }
    [] ev.key \in ForwardKeys  -> { [d EXCEPT !.cursor = c] : c \in d.cursor..d.len }
    [] ev.key = "Backspace" ->
         IF d.cursor > 0 THEN { [len |-> d.len - 1, cursor |-> d.cursor - 1] } ELSE {d}
    [] ev.key = "Delete" ->
         IF d.cursor < d.len THEN { [d EXCEPT !.len = @ - 1] } ELSE {d}
    [] ev.key \in TypingKeys /\ ev.mods \subseteq {"Shift"} ->
         { [len |-> d.len + 1, cursor |-> d.cursor + 1] }
    [] OTHER -> {d}

\* A key is pressed while the active Markdown view's editor has the focus.
KeyPress ==
  /\ activeLeaf \in MarkdownViews /\ focused
  /\ \E ev \in KeyEvents :
        IF Swallowed(World, ev) THEN UNCHANGED vars
        ELSE \E d \in editorDefault(doc[activeLeaf], ev) :
                Commit([World EXCEPT !.doc[activeLeaf] = d])

\* A mouse click at a text position of the active Markdown view: the editor puts
\* the cursor there and takes the focus, then the plugin's click listeners run.
click(w, pos) ==
  LET md == w.activeLeaf
      w1 == [w EXCEPT !.doc[md].cursor = pos, !.focused = TRUE]
  IN IF w1.listeners[md] > 0 THEN mouseEventListener(w1) ELSE w1

Click ==
  /\ activeLeaf \in MarkdownViews
  /\ \E pos \in 0..doc[activeLeaf].len : Commit(click(World, pos))

\* The editing specification: both platforms, the plugin's activation and the
\* user's keys, clicks, focus and leaf changes.
InitEdit ==
  /\ ver \in Versions
  /\ isMac \in BOOLEAN
  /\ life = "new"
  /\ settings = UndefObj
  /\ settingsIsDefaults = FALSE
  /\ defaultSettings = DEFAULT_SETTINGS(ver)
  /\ data \in StoredChoices
  /\ keyMapScope = UndefObj
  /\ keymapInstalled = Undef
  /\ stack = <<>>
  /\ statusBar = Undef
  /\ activeLeaf \in Leaves
  /\ classes = {}
  /\ listeners = [md \in MarkdownViews |-> 0]
  /\ doc = [md \in MarkdownViews |-> [len |-> MaxDoc, cursor |-> 0]]
  /\ focused = FALSE
  /\ pending = EmptyBag
  /\ leafHandler = FALSE

NextEdit ==
  \/ Onload
  \/ OnloadResume
  \/ RunCommand
  \/ ChangeControl([key |-> "allowBackspace", value |-> TRUE])
  \/ ChangeControl([key |-> "allowBackspace", value |-> FALSE])
  \/ SaveDone
  \/ ActiveLeafChange
  \/ Blur
  \/ PollTick
  \/ Click
  \/ KeyPress

SpecEdit == InitEdit /\ [][NextEdit]_vars

(* ------------------------------- claims ------------------------------- *)

\* No handler is suspended: every handler started has run to completion.
Quiescent == pending = EmptyBag

\* The scope the host dispatches key events to.
TopScope == stack[Len(stack)]

\* C1: once every command, settings change and leaf-change handler has run to
\* completion, settings.enabled = false means that no scope of the plugin is on
\* the host scope stack.
C1_NoScopeWhileDisabled ==
  (life = "loaded" /\ Quiescent /\ ~settings.enabled) => stack = <<>>

\* C2: when onload ends (without throwing) with enabled = true loaded from the
\* store and a Markdown view active, the scope is on the host stack and the
\* active view is decorated: cursor at the end, indicator class applied.
C2_StartupActivation ==
  [][ (life = "loading" /\ life' = "loaded" /\ settings'.enabled
         /\ activeLeaf' \in MarkdownViews)
      => (/\ stack' # <<>>
          /\ activeLeaf' \in classes'
          /\ doc'[activeLeaf'].cursor = doc'[activeLeaf'].len) ]_vars

\* The navigation and deletion keys C3 names; Backspace counts while the
\* installed scope was built with allowBackspace = false.
NavigationKeys(allowBackspace) ==
  {"ArrowLeft", "ArrowRight", "ArrowUp", "ArrowDown", "Home", "End", "PageUp",
   "PageDown", "Delete"} \cup (IF allowBackspace THEN {} ELSE {"Backspace"})

\* C3: while a scope of the plugin is installed, every navigation or deletion key
\* is swallowed with every subset of {Meta, Ctrl, Alt, Shift} held.
C3_EveryModifierCombination ==
  stack # <<>> =>
     \A m \in SUBSET Modifiers : \A k \in NavigationKeys(TopScope.ab) :
        Swallowed(World, [mods |-> m, key |-> k])

\* The platform's "Mod" key, and the usual shortcuts of the four commands.
ModKey == IF isMac THEN "Meta" ELSE "Ctrl"

EditingShortcuts ==
  { [mods |-> {ModKey}, key |-> "z"],             \* undo
    [mods |-> {ModKey, "Shift"}, key |-> "Z"],    \* redo
    [mods |-> {ModKey}, key |-> "a"],             \* select all
    [mods |-> {ModKey}, key |-> "x"] }            \* cut

\* C4: while a scope of the plugin is installed, undo, redo, select-all and cut
\* are swallowed in their usual shortcut form, on Meta and on Ctrl platforms.
C4_EditingShortcutsSuppressed ==
  stack # <<>> => \A ev \in EditingShortcuts : Swallowed(World, ev)

\* Activation has completed on the active view and the mode is still on:
\* setupView has run on it (it attaches a listener) and no handler is in flight.
Activated ==
  /\ life = "loaded" /\ Quiescent /\ settings.enabled
  /\ activeLeaf \in MarkdownViews /\ listeners[activeLeaf] > 0

\* C5: from activation until the mode is disabled, the cursor of the active
\* Markdown view is at the end of the document, whatever keys, clicks, focus
\* changes and leaf changes happen.
C5_CursorPinnedToEnd ==
  Activated => doc[activeLeaf].cursor = doc[activeLeaf].len

\* One whole run of the handler of the "Allow using Backspace" control from a
\* quiescent world: onChange up to its await, then the rest.
runAllowBackspace(w, value) ==
  LET w1 == settingOnChange(w, "allowBackspace", value)
      h == CHOOSE x \in BagToSet(w1.pending) : TRUE
  IN resumeAfterSave(w1, h)

\* C6: when the handler of the "Allow using Backspace" control has run while the
\* mode is enabled, the scope key events are dispatched to swallows Backspace
\* exactly when allowBackspace is false.
C6_BackspaceSettingImmediate ==
  (life = "loaded" /\ Quiescent /\ settings.enabled) =>
     LET w == runAllowBackspace(World, ~settings.allowBackspace) IN
     w.stack # <<>> =>
        (Swallowed(w, [mods |-> {}, key |-> "Backspace"]) <=> ~w.settings.allowBackspace)

\* One whole run of the "Toggle active" command from a quiescent world: the
\* callback up to its await, then the rest once the record is written.
runToggle(w) ==
  LET w1 == commandCallback(w, "toggle-active")
      h == CHOOSE x \in BagToSet(w1.pending) : TRUE
  IN resumeAfterSave(w1, h)

\* What C7 calls the observable state.
Observable(w) ==
  [enabled |-> w.settings.enabled,
   scopes |-> { w.stack[i] : i \in DOMAIN w.stack },
   class |-> w.activeLeaf \in w.classes]

\* C7: with a Markdown view active, "Toggle active" flips enabled, and two runs in
\* a row bring back the same enabled, the same scopes on the stack and the same
\* presence of the class on the active view.
C7_ToggleTwiceRestores ==
  (life = "loaded" /\ Quiescent /\ activeLeaf \in MarkdownViews) =>
     /\ runToggle(World).settings.enabled = ~settings.enabled
     /\ Observable(runToggle(runToggle(World))) = Observable(World)

\* C8 (part_001): when a command, settings or leaf-change handler has completed
\* and none is in flight, the status bar shows statusBarText if showStatusBar and
\* enabled are both true and is empty otherwise, Markdown view active or not.
C8_StatusBarReflectsState ==
  [][ (ver = "p1" /\ (SaveDone \/ ActiveLeafChange) /\ life' = "loaded" /\ pending' = EmptyBag)
      => statusBar' = statusBarLabel(settings') ]_vars

\* C9 (main.ts): when a command, settings or leaf-change handler has completed
\* with a Markdown view active, that view carries the class exactly when enabled
\* and showTopLineWhenActive are both true.
C9_TopLineReflectsState ==
  [][ (ver = "main" /\ (SaveDone \/ (ActiveLeafChange /\ leafHandler))
         /\ settings' # UndefObj /\ activeLeaf' \in MarkdownViews)
      => (activeLeaf' \in classes'
            <=> (settings'.enabled /\ settings'.showTopLineWhenActive)) ]_vars

C9_Witness ==
  /\ ver = "main" /\ life = "loaded" /\ Quiescent
  /\ activeLeaf \in MarkdownViews /\ activeLeaf \in classes
  /\ settings.enabled /\ settings.showTopLineWhenActive

\* C10: once onunload has completed no scope of the plugin is on the host stack,
\* whatever came before, and nothing that follows pushes one again.
C10_UnloadRestores == life = "unloaded" => stack = <<>>

\* C11: loadSettings leaves every settings key with the stored value when the
\* stored record has the key and with the DEFAULT_SETTINGS value otherwise (so
\* with DEFAULT_SETTINGS as a whole when nothing is stored), and no step, at load
\* or later, changes the DEFAULT_SETTINGS object.
C11_LoadMergesOverDefaults ==
  [][ /\ (life = "loading" /\ life' # "loading") =>
           /\ \A k \in DOMAIN DEFAULT_SETTINGS(ver) :
                 settings'[k] = IF data # NullObj /\ k \in DOMAIN data
                                THEN data[k] ELSE DEFAULT_SETTINGS(ver)[k]
           /\ data = NullObj => settings' = DEFAULT_SETTINGS(ver)
      /\ defaultSettings' = DEFAULT_SETTINGS(ver) ]_vars

\* The plugin has just loaded a stored record that has some of the settings keys
\* and not others, and has taken a stored value that is not the default.
C11_Witness ==
  /\ life \in {"loaded", "failed"} /\ data # NullObj
  /\ \E k \in DOMAIN DEFAULT_SETTINGS(ver) : k \notin DOMAIN data
  /\ \E k \in DOMAIN DEFAULT_SETTINGS(ver) :
        k \in DOMAIN data /\ settings[k] = data[k] /\ data[k] # DEFAULT_SETTINGS(ver)[k]

\* C12: every handler that changes a settings field saves before it updates, so
\* when a handler has completed and none is in progress the record in the host
\* store equals the in-memory settings.
C12_StoreEqualsSettings ==
  [][ (SaveDone /\ pending' = EmptyBag) => data' = settings' ]_vars

\* C13: a run of a command shows exactly one notice, naming the state enabled now
\* has, when showToggleNotice is true and none when it is false, with or without
\* a Markdown view active; settings-tab handlers, active-leaf-change events and
\* onExternalSettingsChange show none.
C13_ToggleNotice ==
  life = "loaded" =>
     /\ \A h \in BagToSet(pending) :
           resumeAfterSave(World, h).notices =
              IF ~h.quiet /\ settings.showToggleNotice
              THEN <<noticeText(settings.enabled)>> ELSE <<>>
     /\ \A leaf \in Leaves :
           activeLeafChangeHandler([World EXCEPT !.activeLeaf = leaf]).notices = <<>>
     /\ onExternalSettingsChange(World).notices = <<>>

\* C14 (part_001): with the mode enabled and a Markdown view active, a poll tick
\* that finds the editor unfocused leaves no scope of the plugin on the host
\* stack, a tick that finds it focused leaves the scope on the stack, and a tick
\* while enabled is false installs nothing.
C14_FocusPolling ==
  (ver = "p1" /\ life = "loaded") =>
     /\ (settings.enabled /\ activeLeaf \in MarkdownViews /\ ~focused)
           => pollTick(World).stack = <<>>
     /\ (settings.enabled /\ activeLeaf \in MarkdownViews /\ focused)
           => pollTick(World).stack # <<>>
     /\ ~settings.enabled => pollTick(World).stack = stack

\* C15: when an active-leaf-change handler has completed and the active view is
\* no Markdown view, no scope of the plugin is on the host stack, enabled or not.
C15_NoScopeWithoutMarkdownView ==
  [][ (ActiveLeafChange /\ leafHandler /\ life = "loaded" /\ activeLeaf' \notin MarkdownViews)
      => stack' = <<>> ]_vars

\* C16: when onExternalSettingsChange has completed after data.json was changed
\* from outside, every key of the stored record has the stored value in the
\* in-memory settings, and with a Markdown view active a scope of the plugin is
\* on the host stack exactly when the stored record says enabled.
C16_ExternalChangeFollowed ==
  [][ (ExternalSettingsChange /\ life = "loaded") =>
        /\ data' # NullObj => \A k \in DOMAIN data' : settings'[k] = data'[k]
        /\ data' = NullObj => settings' = DEFAULT_SETTINGS(ver)
        /\ activeLeaf' \in MarkdownViews =>
              (stack' # <<>> <=> ObjectAssign(DEFAULT_SETTINGS(ver), data').enabled) ]_vars

\* C17: when enabled is false and the handler that disabled the mode has
\* completed, no Markdown view, active or not, carries the class.
C17_NoViewKeepsClass ==
  [][ (SaveDone /\ life = "loaded" /\ pending' = EmptyBag /\ ~settings'.enabled)
      => classes' = {} ]_vars

\* C18: at most one click listener of the plugin is attached to a Markdown view
\* at any time, and none once restoreView has run on the view (the mode is off
\* and the handler that turned it off has completed on the active view).
C18_OneClickListener ==
  /\ \A md \in MarkdownViews : listeners[md] <= 1
  /\ \A md \in MarkdownViews : restoreView([World EXCEPT !.activeLeaf = md]).listeners[md] = 0

\* C19: in every reachable state at most one scope of the plugin is on the host
\* scope stack.
C19_BoundedScopeStack == Len(stack) <= 1

\* C20 (part_001): after onload, keymapInstalled is true exactly when the scope
\* held in this.keyMapScope is on the host stack, and no other scope of the
\* plugin is on it.
C20_InstalledFlagConsistent ==
  (ver = "p1" /\ life = "loaded") =>
     /\ keymapInstalled = "true" <=> keyMapScope \in { stack[i] : i \in DOMAIN stack }
     /\ \A i \in DOMAIN stack : stack[i] = keyMapScope

\* The fields updateStatus reads have all been assigned.
FieldsAssigned ==
  /\ settings # UndefObj
  /\ keyMapScope # UndefObj
  /\ ver = "p1" => (keymapInstalled # Undef /\ statusBar # Undef)

\* C21: whenever updateStatus is executed, from an active-leaf-change event, from
\* a handler resumed after its save, or from onload itself (part_001; there
\* settings, keyMapScope and keymapInstalled are assigned just before the call),
\* the fields it reads have been assigned.
C21_InitialisedBeforeUpdateStatus ==
  [][ /\ ((ActiveLeafChange /\ leafHandler) \/ SaveDone) => FieldsAssigned
      /\ (OnloadResume /\ ver = "p1") => statusBar # Undef ]_vars

(* ------------------------------ typing -------------------------------- *)

\* The keys of forward typing: letters (among them those of the registered
\* shortcuts), a digit, a punctuation mark, Space, Enter and Tab, pressed alone
\* or with Shift.
TypedEvents == [mods : {{}, {"Shift"}}, key : TypingKeys]

\* A typing key is pressed while the active Markdown view's editor has the focus.
TypeKey ==
  /\ activeLeaf \in MarkdownViews /\ focused
  /\ \E ev \in TypedEvents :
        IF Swallowed(World, ev) THEN UNCHANGED vars
        ELSE \E d \in editorDefault(doc[activeLeaf], ev) :
                Commit([World EXCEPT !.doc[activeLeaf] = d])

\* A writing session: the plugin starts on either platform with the mode stored
\* off, on, or on with Backspace allowed, over empty notes; the user moves
\* between leaves, types, and presses the other keys.
StoredModes ==
  {NullObj, [enabled |-> TRUE], [enabled |-> TRUE, allowBackspace |-> TRUE]}

InitType ==
  /\ ver \in Versions
  /\ isMac \in BOOLEAN
  /\ life = "new"
  /\ settings = UndefObj
  /\ settingsIsDefaults = FALSE
  /\ defaultSettings = DEFAULT_SETTINGS(ver)
  /\ data \in StoredModes
  /\ keyMapScope = UndefObj
  /\ keymapInstalled = Undef
  /\ stack = <<>>
  /\ statusBar = Undef
  /\ activeLeaf \in Leaves
  /\ classes = {}
  /\ listeners = [md \in MarkdownViews |-> 0]
  /\ doc = [md \in MarkdownViews |-> [len |-> 0, cursor |-> 0]]
  /\ focused = FALSE
  /\ pending = EmptyBag
  /\ leafHandler = FALSE

NextType ==
  \/ Onload
  \/ OnloadResume
  \/ ActiveLeafChange
  \/ KeyPress
  \/ TypeKey

SpecType == InitType /\ [][NextType]_vars

\* The letter keys of the model, in both cases.
Letters == {"a", "A", "x", "X", "z", "Z"}

\* The letter shortcuts the plugin registers: Meta+Z, and Meta+A in part_001.
RegisteredLetters == IF ver = "main" THEN {"z", "Z"} ELSE {"z", "Z", "a", "A"}

\* C22: forward typing is unaffected.  Whatever scope is installed, with either
\* allowBackspace setting, no typing key (letter, digit, punctuation, Space,
\* Enter, Tab) pressed alone or with Shift is taken by it, so the key is
\* dispatched to the editor as it would be without the scope; and a letter key
\* is taken only when it is Z (or A in part_001) held with Meta alone.
C22_ForwardTypingUnaffected ==
  /\ \A ev \in TypedEvents : ~Swallowed(World, ev)
  /\ \A i \in DOMAIN stack : \A ev \in TypedEvents : ~handleKey(ver, isMac, stack[i], ev)
  /\ \A ev \in [mods : SUBSET Modifiers, key : Letters] :
        Swallowed(World, ev) => (ev.mods = {"Meta"} /\ ev.key \in RegisteredLetters)

\* C22 witness: the scope is installed with Backspace not allowed, the editor
\* has the focus, and a character has been typed into the empty note.
C22_Witness ==
  /\ stack # <<>>
  /\ ~TopScope.ab
  /\ activeLeaf \in MarkdownViews /\ focused
  /\ doc[activeLeaf].len > 0
  /\ Swallowed(World, [mods |-> {"Meta"}, key |-> "z"])

\* The integers of the model, as the strings that hold them.
IntegerStrings == {"2", "3", "5"}

\* The style values written to --hemingway-active-top-line-width by a stretch
\* of code that ends in world w.
WidthStyles(w) ==
  { w.styles[i].value : i \in { j \in DOMAIN w.styles :
        w.styles[j].property = "--hemingway-active-top-line-width" } }

\* C23: in src/main.ts, once settings are loaded, settings.topLineWidth is an
\* integer, the persisted topLineWidth is an integer, and every value that
\* updateStatus writes to the width style property, from a resumed handler or
\* from a leaf change, is an integer followed by "px".
C23_TopLineWidthIsInteger ==
  (ver = "main" /\ life = "loaded") =>
     /\ settings.topLineWidth \in IntegerStrings
     /\ (data # NullObj /\ "topLineWidth" \in DOMAIN data) =>
           data.topLineWidth \in IntegerStrings
     /\ \A h \in BagToSet(pending) :
           WidthStyles(resumeAfterSave(World, h)) \subseteq { px(n) : n \in IntegerStrings }
     /\ \A leaf \in Leaves :
           WidthStyles(activeLeafChangeHandler([World EXCEPT !.activeLeaf = leaf]))
              \subseteq { px(n) : n \in IntegerStrings }

====
